---- MODULE Spec2Model ----
(***************************************************************************)
(* Image repository: the HTTP API service (src/app.py) and the queue       *)
(* worker (src/src/app.py).  The object store, the metadata table, the     *)
(* queue and the notification topic are the shared state; every provider   *)
(* call of a handler is one atomic step that may fail.                     *)
(***************************************************************************)
EXTENDS Integers, Sequences, FiniteSets, TLC

(* ------------------------------ bounds -------------------------------- *)

\* Requests the API service accepts in one behaviour.
MaxRequests == 3

\* Records in one batch handed to the worker.
MaxBatch == 3

\* Upload requests accepted while the queue and the worker run.
MaxUploadEvents == 2

(* ------------------------------ inputs -------------------------------- *)

\* Text is a sequence of characters; a file content is a sequence of bytes.
Names == { <<"c", ".", "P">>, <<"n">>, <<"a", ".", "b", ".", "G">> }

Contents == { <<7>>, <<8, 9>> }

Clients == {"c1", "c2"}

\* The multipart 'file' part of an upload request: absent, or a filename
\* (possibly empty) with a content.
NoFile == [present |-> FALSE, filename |-> <<>>, content |-> <<>>]

FilePart(f, b) == [present |-> TRUE, filename |-> f, content |-> b]

(* ------------------------- pure computations -------------------------- *)

\* str.lower() on one character.
Lower(ch) ==
    CASE ch = "P" -> "p"
      [] ch = "G" -> "g"
      [] OTHER -> ch

\* Position of the last '.' of s, 0 when s has none.
LastDot(s) ==
    IF \E i \in 1..Len(s) : s[i] = "."
    THEN CHOOSE i \in 1..Len(s) :
            /\ s[i] = "."
            /\ \A j \in (i+1)..Len(s) : s[j] # "."
    ELSE 0

\* filename.rsplit('.', 1)[1].lower() if '.' in filename else ''
FileExtensionKeepCase(filename) ==
    IF LastDot(filename) = 0
    THEN <<>>
    ELSE SubSeq(filename, LastDot(filename) + 1, Len(filename))

FileExtension(filename) ==
    IF LastDot(filename) = 0
    THEN <<>>
    ELSE [i \in 1..(Len(filename) - LastDot(filename)) |->
             Lower(filename[LastDot(filename) + i])]

\* f'images/{filename}'
S3Key(filename) == <<"images/">> \o filename

\* timestamp.isoformat(): the instant as text.
IsoFormat(t) == [iso |-> t]

(* ------------------------------- state -------------------------------- *)

VARIABLES
    bucket,          \* object store: key -> bytes, for the keys that exist
    image_metadata,  \* table image_metadata: rows in insertion order
    queue,           \* SQS queue: the messages not yet deleted
    pc,              \* per client: where its request handler stands
    req,             \* per client: the request being handled
    resp,            \* per client: the (status, body) returned
    calls,           \* per client: provider calls the handler issued
    pre,             \* per client: stores as they were when it was accepted
    nreq,            \* requests accepted so far; also the wall clock
    overlapped,      \* names an upload and a delete were in flight on at once
    subscriptions,   \* SNS topic: subscription ARNs issued and not removed
    batch,           \* worker: event['Records'] of the running invocation
    idx,             \* worker: 1-based index of the record in the for loop
    wpc,             \* worker: where lambda_handler stands
    publishCalls,    \* worker: sns publish calls of this invocation
    result,          \* worker: what the invocation returned
    topic            \* SNS topic: notifications published successfully

workerVars == <<batch, idx, wpc, publishCalls, result, topic>>

vars == <<bucket, image_metadata, queue, pc, req, resp, calls, pre, nreq,
          overlapped, subscriptions, batch, idx, wpc, publishCalls, result,
          topic>>

NoRequest == [op |-> "none", id |-> 0, image_name |-> <<>>, file |-> NoFile,
              json |-> [present |-> FALSE, has |-> FALSE, value |-> <<>>]]

NoResponse == [status |-> 0, body |-> [none |-> TRUE]]

NoSnapshot == [bucket |-> <<>>, image_metadata |-> <<>>, queue |-> <<>>]

Call(name, ok) == [call |-> name, ok |-> ok]

InFlight(c) == pc[c] \notin {"idle", "done"}

\* jsonify(body), status
Reply(c, status, body) ==
    /\ resp' = [resp EXCEPT ![c] = [status |-> status, body |-> body]]
    /\ pc' = [pc EXCEPT ![c] = "done"]

\* str(e) of an exception raised by a provider call
ExceptionText == <<"exception">>

ServerError(c) == Reply(c, 500, [error |-> ExceptionText])

HasRow(table, name) == \E i \in 1..Len(table) : table[i].image_name = name

HasObject(store, name) == S3Key(name) \in DOMAIN store

(* ------------------------ provider operations ------------------------- *)

\* s3_client.put_object(Bucket, Key, Body): creates or overwrites the key.
PutObject(store, key, body) ==
    [k \in DOMAIN store \cup {key} |-> IF k = key THEN body ELSE store[k]]

\* s3_client.delete_object(Bucket, Key): removes the key if it is there.
DeleteObject(store, key) == [k \in DOMAIN store \ {key} |-> store[k]]

\* DELETE FROM image_metadata WHERE image_name = %s
DeleteRows(table, name) == SelectSeq(table, LAMBDA r : r.image_name # name)

\* cursor.rowcount of that DELETE
RowCount(table, name) == Len(table) - Len(DeleteRows(table, name))

\* The row INSERT INTO image_metadata (image_name, file_size, file_extension,
\* s3_key) stores; last_update is set by the table.
MetadataRow(filename, content, now) ==
    [image_name |-> filename, file_size |-> Len(content),
     file_extension |-> FileExtension(filename), s3_key |-> S3Key(filename),
     last_update |-> now]

\* message_body of upload_image, serialized by json.dumps.
MessageBody(filename, content, now) ==
    [image_name |-> filename, file_size |-> Len(content),
     file_extension |-> FileExtension(filename), timestamp |-> IsoFormat(now),
     s3_key |-> S3Key(filename)]

\* json.dumps(obj): a JSON text holding obj; any other text is not JSON.
JsonDumps(obj) == [json |-> TRUE, value |-> obj]

\* The message sqs_client.send_message puts on the queue; the queue gives it
\* the MessageId id.
SqsMessage(filename, content, now, id) ==
    [MessageId |-> id,
     MessageBody |-> JsonDumps(MessageBody(filename, content, now)),
     MessageAttributes |->
        [Extension |-> [StringValue |-> FileExtension(filename),
                        DataType |-> "String"]]]

\* The JSON object a metadata read path answers with for a row.
MetadataJson(row) ==
    [name |-> row.image_name, size_bytes |-> row.file_size,
     extension |-> row.file_extension,
     last_update |-> IsoFormat(row.last_update)]

Reverse(s) == [i \in 1..Len(s) |-> s[Len(s) + 1 - i]]

NotFoundText(name) == <<"Image ">> \o name \o <<" not found">>

(* ------------------------ HTTP API: requests -------------------------- *)

UploadRequest(file) == [NoRequest EXCEPT !.op = "upload_image", !.file = file]

NameRequest(op, name) == [NoRequest EXCEPT !.op = op, !.image_name = name]

PlainRequest(op) == [NoRequest EXCEPT !.op = op]

JsonRequest(op, json) == [NoRequest EXCEPT !.op = op, !.json = json]

\* The name a request works on (upload: the filename of its file part).
TargetName(r) == IF r.op = "upload_image" THEN r.file.filename ELSE r.image_name

\* An upload_image and a delete_image on the same name, one of them r, the
\* other in flight on another client.
Overlaps(c, r) ==
    \E d \in Clients \ {c} :
        /\ InFlight(d)
        /\ {r.op, req[d].op} = {"upload_image", "delete_image"}
        /\ TargetName(req[d]) = TargetName(r)

\* @app.route: the service accepts request r on client c, as its request
\* number nreq + 1, and enters the handler of r.op.
Dispatch(c, r) ==
    /\ pc[c] \in {"idle", "done"}
    /\ nreq < MaxRequests
    /\ nreq' = nreq + 1
    /\ req' = [req EXCEPT ![c] = [r EXCEPT !.id = nreq + 1]]
    /\ pc' = [pc EXCEPT ![c] = r.op]
    /\ resp' = [resp EXCEPT ![c] = NoResponse]
    /\ calls' = [calls EXCEPT ![c] = <<>>]
    /\ pre' = [pre EXCEPT ![c] = [bucket |-> bucket,
                                  image_metadata |-> image_metadata,
                                  queue |-> queue]]
    /\ overlapped' = IF Overlaps(c, r)
                     THEN overlapped \cup {TargetName(r)}
                     ELSE overlapped
    /\ UNCHANGED <<bucket, image_metadata, queue, subscriptions>>
    /\ UNCHANGED workerVars

Issue(c, name, ok) == calls' = [calls EXCEPT ![c] = Append(@, Call(name, ok))]

handlerFrame == <<req, pre, nreq, overlapped, subscriptions>>

(* ------------------------ HTTP API: upload_image ---------------------- *)

\* Lines 194-208: the checks on the file part and the locals of the handler.
upload_image(c) ==
    /\ pc[c] = "upload_image"
    /\ IF ~req[c].file.present
       THEN Reply(c, 400, [error |-> <<"No file provided">>])
       ELSE IF req[c].file.filename = <<>>
       THEN Reply(c, 400, [error |-> <<"No file selected">>])
       ELSE /\ pc' = [pc EXCEPT ![c] = "put_object"]
            /\ UNCHANGED resp
    /\ UNCHANGED <<bucket, image_metadata, queue, calls>>
    /\ UNCHANGED handlerFrame
    /\ UNCHANGED workerVars

\* Lines 210-216: s3_client.put_object; an exception goes to line 270.
upload_image_put_object_unwritten(c, ok) ==
    /\ pc[c] = "put_object"
    /\ Issue(c, "put_object", ok)
    /\ IF ok
       THEN /\ pc' = [pc EXCEPT ![c] = "insert"]
            /\ UNCHANGED resp
       ELSE ServerError(c)
    /\ UNCHANGED <<bucket, image_metadata, queue>>
    /\ UNCHANGED handlerFrame
    /\ UNCHANGED workerVars

upload_image_put_object(c, ok) ==
    /\ pc[c] = "put_object"
    /\ Issue(c, "put_object", ok)
    /\ IF ok
       THEN /\ bucket' = PutObject(bucket, S3Key(req[c].file.filename),
                                   req[c].file.content)
            /\ pc' = [pc EXCEPT ![c] = "insert"]
            /\ UNCHANGED resp
       ELSE /\ ServerError(c)
            /\ UNCHANGED bucket
    /\ UNCHANGED <<image_metadata, queue>>
    /\ UNCHANGED handlerFrame
    /\ UNCHANGED workerVars

\* Lines 220-236: get_db_connection, then INSERT and commit.  how is
\* "no_connection" (get_db_connection returned None, logged as the failed
\* call "connect"), "error" (execute or commit raised; nothing is committed)
\* or "ok".
upload_image_insert_then_enqueue(c, how) ==
    /\ pc[c] = "insert"
    /\ how \in {"no_connection", "error", "ok"}
    /\ IF how # "no_connection"
       THEN Issue(c, "insert", how = "ok")
       ELSE Issue(c, "connect", FALSE)
    /\ IF how = "ok"
       THEN image_metadata' = Append(image_metadata,
               MetadataRow(req[c].file.filename, req[c].file.content, nreq))
       ELSE UNCHANGED image_metadata
    /\ pc' = [pc EXCEPT ![c] = "send_message"]
    /\ UNCHANGED <<bucket, queue, resp>>
    /\ UNCHANGED handlerFrame
    /\ UNCHANGED workerVars

upload_image_insert(c, how) ==
    /\ pc[c] = "insert"
    /\ how \in {"no_connection", "error", "ok"}
    /\ CASE how = "no_connection" ->
              /\ Issue(c, "connect", FALSE)
              /\ Reply(c, 500, [error |-> <<"Database connection failed">>])
              /\ UNCHANGED image_metadata
         [] how = "error" ->
              /\ Issue(c, "insert", FALSE)
              /\ ServerError(c)
              /\ UNCHANGED image_metadata
         [] how = "ok" ->
              /\ Issue(c, "insert", TRUE)
              /\ image_metadata' = Append(image_metadata,
                    MetadataRow(req[c].file.filename, req[c].file.content, nreq))
              /\ pc' = [pc EXCEPT ![c] = "send_message"]
              /\ UNCHANGED resp
    /\ UNCHANGED <<bucket, queue>>
    /\ UNCHANGED handlerFrame
    /\ UNCHANGED workerVars

\* Lines 240-272: sqs_client.send_message, then the 201 response.
upload_image_send_message(c, ok) ==
    /\ pc[c] = "send_message"
    /\ Issue(c, "send_message", ok)
    /\ IF ok
       THEN /\ queue' = Append(queue,
                   SqsMessage(req[c].file.filename, req[c].file.content, nreq,
                              req[c].id))
            /\ Reply(c, 201,
                   [success |-> TRUE,
                    message |-> <<"Image ">> \o req[c].file.filename
                                   \o <<" uploaded successfully">>,
                    image_name |-> req[c].file.filename,
                    size |-> Len(req[c].file.content),
                    extension |-> FileExtension(req[c].file.filename)])
       ELSE /\ ServerError(c)
            /\ UNCHANGED queue
    /\ UNCHANGED <<bucket, image_metadata>>
    /\ UNCHANGED handlerFrame
    /\ UNCHANGED workerVars

(* ------------------------ HTTP API: download_image -------------------- *)

\* Lines 281-300: s3_client.get_object.  how is "error" (an exception other
\* than NoSuchKey) or "ok" (the store answers: the body, or NoSuchKey); the
\* call is logged as ok when the store answered.
download_image_always_found(c, how) ==
    /\ pc[c] = "download_image"
    /\ how \in {"error", "ok"}
    /\ Issue(c, "get_object", how = "ok")
    /\ IF how = "error"
       THEN ServerError(c)
       ELSE Reply(c, 200, [file |-> <<>>, download_name |-> req[c].image_name,
                           as_attachment |-> TRUE])
    /\ UNCHANGED <<bucket, image_metadata, queue>>
    /\ UNCHANGED handlerFrame
    /\ UNCHANGED workerVars

download_image(c, how) ==
    /\ pc[c] = "download_image"
    /\ how \in {"error", "ok"}
    /\ CASE how = "error" ->
              /\ Issue(c, "get_object", FALSE)
              /\ ServerError(c)
         [] how = "ok" /\ ~HasObject(bucket, req[c].image_name) ->
              /\ Issue(c, "get_object", TRUE)
              /\ Reply(c, 404, [error |-> NotFoundText(req[c].image_name)])
         [] how = "ok" /\ HasObject(bucket, req[c].image_name) ->
              /\ Issue(c, "get_object", TRUE)
              /\ Reply(c, 200, [file |-> bucket[S3Key(req[c].image_name)],
                                download_name |-> req[c].image_name,
                                as_attachment |-> TRUE])
    /\ UNCHANGED <<bucket, image_metadata, queue>>
    /\ UNCHANGED handlerFrame
    /\ UNCHANGED workerVars

(* ------------------------ HTTP API: metadata reads -------------------- *)

\* A read path that cannot reach the table: how is "no_connection" or "error".
ReadFailure(c, how) ==
    CASE how = "no_connection" ->
           /\ Issue(c, "connect", FALSE)
           /\ Reply(c, 500, [error |-> <<"Database connection failed">>])
      [] how = "error" ->
           /\ Issue(c, "select", FALSE)
           /\ ServerError(c)

readFrame == <<bucket, image_metadata, queue>>

\* Lines 309-342: SELECT ... WHERE image_name = %s; fetchone.
get_image_metadata(c, how) ==
    /\ pc[c] = "get_image_metadata"
    /\ how \in {"no_connection", "error", "ok"}
    /\ IF how # "ok"
       THEN ReadFailure(c, how)
       ELSE /\ Issue(c, "select", TRUE)
            /\ IF ~HasRow(image_metadata, req[c].image_name)
               THEN Reply(c, 404, [error |-> NotFoundText(req[c].image_name)])
               ELSE \E i \in 1..Len(image_metadata) :
                       /\ image_metadata[i].image_name = req[c].image_name
                       /\ Reply(c, 200, MetadataJson(image_metadata[i]))
    /\ UNCHANGED readFrame
    /\ UNCHANGED handlerFrame
    /\ UNCHANGED workerVars

\* Lines 351-386: SELECT ... ORDER BY RAND() LIMIT 1; fetchone.
get_random_image_metadata(c, how) ==
    /\ pc[c] = "get_random_image_metadata"
    /\ how \in {"no_connection", "error", "ok"}
    /\ IF how # "ok"
       THEN ReadFailure(c, how)
       ELSE /\ Issue(c, "select", TRUE)
            /\ IF image_metadata = <<>>
               THEN Reply(c, 404, [error |-> <<"No images found">>])
               ELSE \E i \in 1..Len(image_metadata) :
                       Reply(c, 200, MetadataJson(image_metadata[i]))
    /\ UNCHANGED readFrame
    /\ UNCHANGED handlerFrame
    /\ UNCHANGED workerVars

\* Lines 440-474: SELECT ... ORDER BY last_update DESC; fetchall.  Rows are
\* kept in insertion order, so the newest is the last.
list_images_404_when_empty(c, how) ==
    /\ pc[c] = "list_images"
    /\ how \in {"no_connection", "error", "ok"}
    /\ IF how # "ok"
       THEN ReadFailure(c, how)
       ELSE /\ Issue(c, "select", TRUE)
            /\ IF image_metadata = <<>>
               THEN Reply(c, 404, [error |-> <<"No images found">>])
               ELSE Reply(c, 200,
                      [images |-> [i \in 1..Len(image_metadata) |->
                                      MetadataJson(Reverse(image_metadata)[i])],
                       total |-> Len(image_metadata)])
    /\ UNCHANGED readFrame
    /\ UNCHANGED handlerFrame
    /\ UNCHANGED workerVars

list_images(c, how) ==
    /\ pc[c] = "list_images"
    /\ how \in {"no_connection", "error", "ok"}
    /\ IF how # "ok"
       THEN ReadFailure(c, how)
       ELSE /\ Issue(c, "select", TRUE)
            /\ Reply(c, 200,
                  [images |-> [i \in 1..Len(image_metadata) |->
                                  MetadataJson(Reverse(image_metadata)[i])],
                   total |-> Len(image_metadata)])
    /\ UNCHANGED readFrame
    /\ UNCHANGED handlerFrame
    /\ UNCHANGED workerVars

(* ------------------------ HTTP API: delete_image ---------------------- *)

\* Lines 395-416: get_db_connection, DELETE and commit, the rowcount check.
delete_image_ignoring_rowcount(c, how) ==
    /\ pc[c] = "delete_image"
    /\ how \in {"no_connection", "error", "ok"}
    /\ CASE how = "no_connection" ->
              /\ Issue(c, "connect", FALSE)
              /\ Reply(c, 500, [error |-> <<"Database connection failed">>])
              /\ UNCHANGED image_metadata
         [] how = "error" ->
              /\ Issue(c, "delete", FALSE)
              /\ ServerError(c)
              /\ UNCHANGED image_metadata
         [] how = "ok" ->
              /\ Issue(c, "delete", TRUE)
              /\ image_metadata' = DeleteRows(image_metadata, req[c].image_name)
              /\ pc' = [pc EXCEPT ![c] = "delete_object"]
              /\ UNCHANGED resp
    /\ UNCHANGED <<bucket, queue>>
    /\ UNCHANGED handlerFrame
    /\ UNCHANGED workerVars

delete_image(c, how) ==
    /\ pc[c] = "delete_image"
    /\ how \in {"no_connection", "error", "ok"}
    /\ CASE how = "no_connection" ->
              /\ Issue(c, "connect", FALSE)
              /\ Reply(c, 500, [error |-> <<"Database connection failed">>])
              /\ UNCHANGED image_metadata
         [] how = "error" ->
              /\ Issue(c, "delete", FALSE)
              /\ ServerError(c)
              /\ UNCHANGED image_metadata
         [] how = "ok" ->
              /\ Issue(c, "delete", TRUE)
              /\ image_metadata' = DeleteRows(image_metadata, req[c].image_name)
              /\ IF RowCount(image_metadata, req[c].image_name) = 0
                 THEN Reply(c, 404,
                            [error |-> NotFoundText(req[c].image_name)])
                 ELSE /\ pc' = [pc EXCEPT ![c] = "delete_object"]
                      /\ UNCHANGED resp
    /\ UNCHANGED <<bucket, queue>>
    /\ UNCHANGED handlerFrame
    /\ UNCHANGED workerVars

\* Lines 418-431: s3_client.delete_object, then the 200 response.
delete_image_delete_object_kept(c, ok) ==
    /\ pc[c] = "delete_object"
    /\ Issue(c, "delete_object", ok)
    /\ IF ok
       THEN Reply(c, 200,
               [success |-> TRUE,
                message |-> <<"Image ">> \o req[c].image_name
                               \o <<" deleted successfully">>])
       ELSE ServerError(c)
    /\ UNCHANGED <<bucket, image_metadata, queue>>
    /\ UNCHANGED handlerFrame
    /\ UNCHANGED workerVars

delete_image_delete_object(c, ok) ==
    /\ pc[c] = "delete_object"
    /\ Issue(c, "delete_object", ok)
    /\ IF ok
       THEN /\ bucket' = DeleteObject(bucket, S3Key(req[c].image_name))
            /\ Reply(c, 200,
                  [success |-> TRUE,
                   message |-> <<"Image ">> \o req[c].image_name
                                  \o <<" deleted successfully">>])
       ELSE /\ ServerError(c)
            /\ UNCHANGED bucket
    /\ UNCHANGED <<image_metadata, queue>>
    /\ UNCHANGED handlerFrame
    /\ UNCHANGED workerVars

(* ------------------- the API service, one request at a time ----------- *)

Outcomes == {"no_connection", "error", "ok"}

ImageRequests ==
    {UploadRequest(NoFile)}
    \cup {UploadRequest(FilePart(f, b)) : f \in Names \cup {<<>>}, b \in Contents}
    \cup {NameRequest(op, n) :
            op \in {"download_image", "get_image_metadata", "delete_image"},
            n \in Names}
    \cup {PlainRequest("get_random_image_metadata"), PlainRequest("list_images")}

NoResult == [raised |-> FALSE, statusCode |-> 0, body |-> <<>>]

InitWorkerIdle ==
    /\ batch = <<>>
    /\ idx = 1
    /\ wpc = "idle"
    /\ publishCalls = <<>>
    /\ result = NoResult
    /\ topic = {}

InitApiIdle ==
    /\ bucket = <<>>
    /\ image_metadata = <<>>
    /\ queue = <<>>
    /\ pc = [c \in Clients |-> "idle"]
    /\ req = [c \in Clients |-> NoRequest]
    /\ resp = [c \in Clients |-> NoResponse]
    /\ calls = [c \in Clients |-> <<>>]
    /\ pre = [c \in Clients |-> NoSnapshot]
    /\ nreq = 0
    /\ overlapped = {}
    /\ subscriptions = {}

\* The service after start-up: empty stores, no request in flight.
Init ==
    /\ InitApiIdle
    /\ InitWorkerIdle

\* The steps of the image handlers on client c.
ImageStep(c) ==
    \/ upload_image(c)
    \/ \E ok \in BOOLEAN : upload_image_put_object(c, ok)
    \/ \E how \in Outcomes : upload_image_insert(c, how)
    \/ \E ok \in BOOLEAN : upload_image_send_message(c, ok)
    \/ \E how \in {"error", "ok"} : download_image(c, how)
    \/ \E how \in Outcomes : get_image_metadata(c, how)
    \/ \E how \in Outcomes : get_random_image_metadata(c, how)
    \/ \E how \in Outcomes : list_images(c, how)
    \/ \E how \in Outcomes : delete_image(c, how)
    \/ \E ok \in BOOLEAN : delete_image_delete_object(c, ok)

Next ==
    \/ \E r \in ImageRequests : Dispatch("c1", r)
    \/ ImageStep("c1")

Spec == Init /\ [][Next]_vars

(* ------------------- the API service, concurrent requests ------------- *)

ConcurrentRequests ==
    {UploadRequest(FilePart(f, <<7>>)) : f \in {<<"c", ".", "P">>, <<"n">>}}
    \cup {NameRequest("delete_image", n) : n \in {<<"c", ".", "P">>, <<"n">>}}

\* Each request runs on its own execution context: the provider calls of the
\* requests in flight interleave in any order.
NextConcurrent ==
    \E c \in Clients :
        \/ \E r \in ConcurrentRequests : Dispatch(c, r)
        \/ upload_image(c)
        \/ \E ok \in BOOLEAN : upload_image_put_object(c, ok)
        \/ \E how \in Outcomes : upload_image_insert(c, how)
        \/ \E ok \in BOOLEAN : upload_image_send_message(c, ok)
        \/ \E how \in Outcomes : delete_image(c, how)
        \/ \E ok \in BOOLEAN : delete_image_delete_object(c, ok)

SpecConcurrent == Init /\ [][NextConcurrent]_vars

(* ------------------- HTTP API: subscription handlers ------------------ *)

\* request.json of a request: absent (no JSON body), or an object that may
\* hold the field the handler reads, with a text value.
NoJson == [present |-> FALSE, has |-> FALSE, value |-> <<>>]

JsonWithout == [present |-> TRUE, has |-> FALSE, value |-> <<>>]

JsonWith(text) == [present |-> TRUE, has |-> TRUE, value |-> text]

\* 'not email': request.json.get(field) is None or the empty string.
Falsy(json) == ~json.has \/ json.value = <<>>

\* response['SubscriptionArn'] of the k-th subscription the topic issues.
SubscriptionArn(k) == <<"arn:aws:sns:subscription:", ToString(k)>>

subscriptionFrame == <<bucket, image_metadata, queue, req, pre, nreq, overlapped>>

\* Lines 479-502.  Without a JSON body request.json raises or is None, and
\* the .get on it raises: both end in the except clause.
subscribe_email(c, ok) ==
    /\ pc[c] = "subscribe_email"
    /\ IF ~req[c].json.present
       THEN /\ ServerError(c)
            /\ UNCHANGED <<calls, subscriptions>>
       ELSE IF Falsy(req[c].json)
       THEN /\ Reply(c, 400, [error |-> <<"Email required">>])
            /\ UNCHANGED <<calls, subscriptions>>
       ELSE /\ Issue(c, "subscribe", ok)
            /\ IF ok
               THEN /\ subscriptions' = subscriptions \cup
                          {[SubscriptionArn |-> SubscriptionArn(nreq),
                            Protocol |-> "email",
                            Endpoint |-> req[c].json.value]}
                    /\ Reply(c, 201,
                          [success |-> TRUE,
                           message |-> <<"Confirmation sent to ">>
                                          \o req[c].json.value,
                           subscription_arn |-> SubscriptionArn(nreq)])
               ELSE /\ ServerError(c)
                    /\ UNCHANGED subscriptions
    /\ UNCHANGED subscriptionFrame
    /\ UNCHANGED workerVars

\* Lines 507-523.
unsubscribe_email(c, ok) ==
    /\ pc[c] = "unsubscribe_email"
    /\ IF ~req[c].json.present
       THEN /\ ServerError(c)
            /\ UNCHANGED <<calls, subscriptions>>
       ELSE IF Falsy(req[c].json)
       THEN /\ Reply(c, 400, [error |-> <<"subscription_arn required">>])
            /\ UNCHANGED <<calls, subscriptions>>
       ELSE /\ Issue(c, "unsubscribe", ok)
            /\ IF ok
               THEN /\ subscriptions' =
                          {x \in subscriptions :
                              x.SubscriptionArn # req[c].json.value}
                    /\ Reply(c, 200,
                          [success |-> TRUE,
                           message |-> <<"Successfully unsubscribed">>])
               ELSE /\ ServerError(c)
                    /\ UNCHANGED subscriptions
    /\ UNCHANGED subscriptionFrame
    /\ UNCHANGED workerVars

Emails == { <<"a", "@", "x">>, <<"b", "@", "x">> }

SubscriptionRequests ==
    {JsonRequest(op, j) :
        op \in {"subscribe_email", "unsubscribe_email"},
        j \in {NoJson, JsonWithout, JsonWith(<<>>)}}
    \cup {JsonRequest("subscribe_email", JsonWith(e)) : e \in Emails}
    \cup {JsonRequest("unsubscribe_email", JsonWith(SubscriptionArn(k))) :
             k \in 1..MaxRequests}

NextSubscriptions ==
    \/ \E r \in SubscriptionRequests : Dispatch("c1", r)
    \/ \E ok \in BOOLEAN : subscribe_email("c1", ok)
    \/ \E ok \in BOOLEAN : unsubscribe_email("c1", ok)

SpecSubscriptions == Init /\ [][NextSubscriptions]_vars

(* --------------------------- queue worker ------------------------------ *)

\* A text that is not JSON.
MalformedText == [json |-> FALSE, value |-> [none |-> TRUE]]

\* The record the queue hands to the worker for a message.
EventRecord(m) ==
    [messageId |-> m.MessageId, body |-> m.MessageBody,
     messageAttributes |-> m.MessageAttributes]

\* Lines 26-31: json.loads(record['body']) and the four field reads raise.
ParseFails(record) ==
    \/ ~record.body.json
    \/ ~({"image_name", "file_size", "file_extension", "timestamp"}
            \subseteq DOMAIN record.body.value)

\* f"{file_size / 1024:.2f}": hundredths of a KB, rounded half to even.
KBHundredths(file_size) ==
    LET q == (file_size * 100) \div 1024
        r == (file_size * 100) % 1024
    IN  IF 2 * r > 1024 \/ (2 * r = 1024 /\ q % 2 = 1) THEN q + 1 ELSE q

\* Lines 35-58: the arguments of sns_client.publish for a parsed record.
Notification(record) ==
    LET m == record.body.value
    IN  [Subject |-> <<"Image Upload: ">> \o m.image_name,
         Message |-> [Name |-> m.image_name,
                      SizeBytes |-> m.file_size,
                      SizeKB |-> KBHundredths(m.file_size),
                      Extension |-> m.file_extension,
                      Uploaded |-> m.timestamp],
         MessageAttributes |->
            [Extension |-> [DataType |-> "String",
                            StringValue |-> m.file_extension]]]

\* json.dumps(f'Processed {len(records)} messages')
ProcessedText(n) == JsonDumps(<<"Processed ", n, " messages">>)

Raised == [raised |-> TRUE, statusCode |-> 0, body |-> <<>>]

workerFrame == <<bucket, image_metadata, queue, pc, req, resp, calls, pre, nreq,
                 overlapped, subscriptions>>

\* Lines 24-31 and 62-69: the head of the for loop.  Past the last record the
\* handler returns; a record that does not parse raises out of the handler.
lambda_handler_for_swallowing ==
    /\ wpc = "for"
    /\ IF idx > Len(batch)
       THEN /\ wpc' = "returned"
            /\ result' = [raised |-> FALSE, statusCode |-> 200,
                          body |-> ProcessedText(Len(batch))]
            /\ UNCHANGED idx
       ELSE IF ParseFails(batch[idx])
       THEN /\ idx' = idx + 1
            /\ UNCHANGED <<wpc, result>>
       ELSE /\ wpc' = "publish"
            /\ UNCHANGED <<result, idx>>
    /\ UNCHANGED <<batch, publishCalls, topic>>
    /\ UNCHANGED workerFrame

lambda_handler_for ==
    /\ wpc = "for"
    /\ IF idx > Len(batch)
       THEN /\ wpc' = "returned"
            /\ result' = [raised |-> FALSE, statusCode |-> 200,
                          body |-> ProcessedText(Len(batch))]
       ELSE IF ParseFails(batch[idx])
       THEN /\ wpc' = "raised"
            /\ result' = Raised
       ELSE /\ wpc' = "publish"
            /\ UNCHANGED result
    /\ UNCHANGED <<batch, idx, publishCalls, topic>>
    /\ UNCHANGED workerFrame

\* Lines 48-64: sns_client.publish for the current record; an exception is
\* logged and raised again.
lambda_handler_publish_swallowing(ok) ==
    /\ wpc = "publish"
    /\ publishCalls' = Append(publishCalls, Notification(batch[idx]))
    /\ topic' = IF ok THEN topic \cup {Notification(batch[idx])} ELSE topic
    /\ idx' = idx + 1
    /\ wpc' = "for"
    /\ UNCHANGED <<result, batch>>
    /\ UNCHANGED workerFrame

lambda_handler_publish(ok) ==
    /\ wpc = "publish"
    /\ publishCalls' = Append(publishCalls, Notification(batch[idx]))
    /\ IF ok
       THEN /\ topic' = topic \cup {Notification(batch[idx])}
            /\ idx' = idx + 1
            /\ wpc' = "for"
            /\ UNCHANGED result
       ELSE /\ wpc' = "raised"
            /\ result' = Raised
            /\ UNCHANGED <<topic, idx>>
    /\ UNCHANGED batch
    /\ UNCHANGED workerFrame

(* --------------------- the worker on an arbitrary batch --------------- *)

\* Records a batch may hold: two upload events, a text that is not JSON, and
\* a JSON object without the timestamp and file_extension fields.
Records ==
    { EventRecord(SqsMessage(<<"c", ".", "P">>, <<7>>, 1, 1)),
      EventRecord(SqsMessage(<<"n">>, <<8, 9>>, 2, 2)),
      [messageId |-> 3, body |-> MalformedText,
       messageAttributes |-> [Extension |-> [StringValue |-> <<>>,
                                             DataType |-> "String"]]],
      [messageId |-> 4,
       body |-> JsonDumps([image_name |-> <<"n">>, file_size |-> 1]),
       messageAttributes |-> [Extension |-> [StringValue |-> <<>>,
                                             DataType |-> "String"]]] }

Batches == UNION { [1..n -> Records] : n \in 0..MaxBatch }

\* lambda_handler(event, context) entered with event['Records'] = batch.
InitWorker ==
    /\ InitApiIdle
    /\ batch \in Batches
    /\ idx = 1
    /\ wpc = "for"
    /\ publishCalls = <<>>
    /\ result = NoResult
    /\ topic = {}

NextWorker ==
    \/ lambda_handler_for
    \/ \E ok \in BOOLEAN : lambda_handler_publish(ok)

SpecWorker == InitWorker /\ [][NextWorker]_vars

(* ------------------ uploads, the queue and the worker ----------------- *)

\* The i-th smallest element of a set of numbers.
IthSmallest(S, i) == CHOOSE x \in S : Cardinality({y \in S : y < x}) = i - 1

\* The event source mapping of the queue (the worker is 'triggered by SQS
\* queue (polling invocation)'): while no invocation runs it receives the
\* messages at positions S, at most MaxBatch of them, and invokes
\* lambda_handler with their records.
sqs_invoke(S) ==
    /\ wpc = "idle"
    /\ S # {}
    /\ S \subseteq 1..Len(queue)
    /\ Cardinality(S) <= MaxBatch
    /\ batch' = [i \in 1..Cardinality(S) |-> EventRecord(queue[IthSmallest(S, i)])]
    /\ idx' = 1
    /\ wpc' = "for"
    /\ publishCalls' = <<>>
    /\ result' = NoResult
    /\ UNCHANGED topic
    /\ UNCHANGED workerFrame

\* The invocation ended: after a return the mapping deletes the messages of
\* the batch from the queue; after a raise it deletes none, and all of them
\* are received again.
sqs_settle ==
    /\ wpc \in {"returned", "raised"}
    /\ queue' = IF wpc = "returned"
                THEN SelectSeq(queue,
                        LAMBDA m : \A i \in 1..Len(batch) :
                                      batch[i].messageId # m.MessageId)
                ELSE queue
    /\ batch' = <<>>
    /\ idx' = 1
    /\ wpc' = "idle"
    /\ publishCalls' = <<>>
    /\ result' = NoResult
    /\ UNCHANGED topic
    /\ UNCHANGED <<bucket, image_metadata, pc, req, resp, calls, pre, nreq,
                   overlapped, subscriptions>>

PipelineRequests ==
    {UploadRequest(FilePart(f, <<7>>)) : f \in {<<"c", ".", "P">>, <<"n">>}}

\* The publish call for the message with MessageId id succeeds.
PublishSucceeds(id) ==
    /\ wpc = "publish"
    /\ batch[idx].messageId = id
    /\ lambda_handler_publish(TRUE)

NextPipeline ==
    \/ \E r \in PipelineRequests : nreq < MaxUploadEvents /\ Dispatch("c1", r)
    \/ upload_image("c1")
    \/ \E ok \in BOOLEAN : upload_image_put_object("c1", ok)
    \/ \E how \in Outcomes : upload_image_insert("c1", how)
    \/ \E ok \in BOOLEAN : upload_image_send_message("c1", ok)
    \/ \E S \in SUBSET (1..Len(queue)) : sqs_invoke(S)
    \/ lambda_handler_for
    \/ \E ok \in BOOLEAN : lambda_handler_publish(ok)
    \/ sqs_settle

\* The queue keeps delivering what it holds and the worker keeps running;
\* the publish call for a message does not fail forever.
FairPipeline ==
    /\ WF_vars(\E S \in SUBSET (1..Len(queue)) : sqs_invoke(S))
    /\ WF_vars(lambda_handler_for)
    /\ WF_vars(sqs_settle)
    /\ \A id \in 1..MaxUploadEvents : SF_vars(PublishSucceeds(id))

SpecPipeline == Init /\ [][NextPipeline]_vars /\ FairPipeline

(* ------------------------------ claims -------------------------------- *)

Finished(c, op) == pc[c] = "done" /\ req[c].op = op

AllCallsOk(c) == \A i \in 1..Len(calls[c]) : calls[c][i].ok

\* The extension the upload contract prescribes for each filename of Names.
ExpectedExtension(f) ==
    CASE f = <<"c", ".", "P">> -> <<"p">>
      [] f = <<"n">> -> <<>>
      [] f = <<"a", ".", "b", ".", "G">> -> <<"g">>

ExpectedKey(f) == <<"images/">> \o f

\* C1: an upload with a non-empty filename f and a content of length L whose
\* object write, row insert and enqueue all succeed returns 201 and leaves the
\* object images/f holding the content, one new row (f, L, lower-cased text
\* after the last '.', or empty) and exactly one new queue message carrying
\* image_name, file_size, that extension and s3_key, with the extension as its
\* Extension attribute.
C1_UploadStoresObjectRowAndMessage ==
    \A c \in Clients :
        ( /\ Finished(c, "upload_image")
          /\ req[c].file.present
          /\ req[c].file.filename # <<>>
          /\ AllCallsOk(c) )
        => LET f == req[c].file.filename
               b == req[c].file.content
               e == ExpectedExtension(f)
               row == image_metadata[Len(image_metadata)]
               msg == queue[Len(queue)]
           IN  /\ resp[c].status = 201
               /\ ExpectedKey(f) \in DOMAIN bucket
               /\ bucket[ExpectedKey(f)] = b
               /\ Len(image_metadata) = Len(pre[c].image_metadata) + 1
               /\ SubSeq(image_metadata, 1, Len(image_metadata) - 1)
                     = pre[c].image_metadata
               /\ row.image_name = f
               /\ row.file_size = Len(b)
               /\ row.file_extension = e
               /\ Len(queue) = Len(pre[c].queue) + 1
               /\ SubSeq(queue, 1, Len(queue) - 1) = pre[c].queue
               /\ msg.MessageBody.json
               /\ msg.MessageBody.value.image_name = f
               /\ msg.MessageBody.value.file_size = Len(b)
               /\ msg.MessageBody.value.file_extension = e
               /\ msg.MessageBody.value.s3_key = ExpectedKey(f)
               /\ msg.MessageAttributes.Extension.StringValue = e

C1_Witness ==
    /\ Finished("c1", "upload_image")
    /\ resp["c1"].status = 201
    /\ req["c1"].file.filename = <<"a", ".", "b", ".", "G">>
    /\ Len(req["c1"].file.content) = 2
    /\ Len(image_metadata) = 1
    /\ Len(queue) = 1

\* The provider calls of upload_image, in the order of the handler.
UploadCallOrder(i, name) ==
    \/ i = 1 /\ name = "put_object"
    \/ i = 2 /\ name \in {"connect", "insert"}
    \/ i = 3 /\ name = "send_message"

\* C2: upload_image issues object write, row insert and enqueue at most once
\* each, in that order, each only after the previous one succeeded; a failure
\* ends the handler with 500, no later step is attempted and the earlier
\* effects stay: after a failed insert the object is stored and neither row nor
\* message is added, after a failed enqueue object and row are stored and no
\* message is added.
C2_UploadStepsInOrderNoRollback ==
    \A c \in Clients :
        req[c].op = "upload_image" =>
        LET n == Len(calls[c])
            f == req[c].file.filename
            stored == /\ ExpectedKey(f) \in DOMAIN bucket
                      /\ bucket[ExpectedKey(f)] = req[c].file.content
        IN  /\ n <= 3
            /\ \A i \in 1..n : UploadCallOrder(i, calls[c][i].call)
            /\ \A i \in 1..(n - 1) : calls[c][i].ok
            /\ (n > 0 /\ ~calls[c][n].ok) =>
                  /\ pc[c] = "done"
                  /\ resp[c].status = 500
            /\ (pc[c] = "done" /\ n = 1 /\ ~calls[c][1].ok) =>
                  /\ bucket = pre[c].bucket
                  /\ image_metadata = pre[c].image_metadata
                  /\ queue = pre[c].queue
            /\ (pc[c] = "done" /\ n = 2 /\ ~calls[c][2].ok) =>
                  /\ stored
                  /\ image_metadata = pre[c].image_metadata
                  /\ queue = pre[c].queue
            /\ (pc[c] = "done" /\ n = 3 /\ ~calls[c][3].ok) =>
                  /\ stored
                  /\ Len(image_metadata) = Len(pre[c].image_metadata) + 1
                  /\ image_metadata[Len(image_metadata)].image_name = f
                  /\ queue = pre[c].queue
            /\ (pc[c] = "done" /\ resp[c].status = 201) => (n = 3 /\ AllCallsOk(c))

\* An upload whose insert failed: 500, the object is there, no row for it.
C2_Witness ==
    /\ Finished("c1", "upload_image")
    /\ resp["c1"].status = 500
    /\ Len(calls["c1"]) = 2
    /\ calls["c1"][2] = Call("insert", FALSE)
    /\ HasObject(bucket, req["c1"].file.filename)
    /\ ~HasRow(image_metadata, req["c1"].file.filename)
    /\ queue = <<>>

NoObjectDeleteCall(c) ==
    \A i \in 1..Len(calls[c]) : calls[c][i].call # "delete_object"

\* C3 as stated: for a name with no row, delete_image returns 404, issues no
\* object-store delete and leaves object store and table unchanged.
C3_DeleteWithoutRowIs404 ==
    \A c \in Clients :
        ( /\ Finished(c, "delete_image")
          /\ ~HasRow(pre[c].image_metadata, req[c].image_name) )
        => /\ resp[c].status = 404
           /\ NoObjectDeleteCall(c)
           /\ bucket = pre[c].bucket
           /\ image_metadata = pre[c].image_metadata

\* C3 amended: for a name with no row, delete_image returns 404 when its
\* DELETE statement executes and 500 when the connection or the statement
\* fails; either way it issues no object-store delete and leaves object store
\* (an orphan at images/n included) and table unchanged.
C3_DeleteWithoutRowNoObjectDelete ==
    \A c \in Clients :
        ( /\ Finished(c, "delete_image")
          /\ ~HasRow(pre[c].image_metadata, req[c].image_name) )
        => /\ resp[c].status \in {404, 500}
           /\ resp[c].status = 404 <=> calls[c] = <<Call("delete", TRUE)>>
           /\ resp[c].status = 404 =>
                 resp[c].body = [error |-> <<"Image ">> \o req[c].image_name
                                              \o <<" not found">>]
           /\ NoObjectDeleteCall(c)
           /\ bucket = pre[c].bucket
           /\ image_metadata = pre[c].image_metadata

\* A 404 delete of a name whose orphan object stays in the store.
C3_Witness ==
    /\ Finished("c1", "delete_image")
    /\ resp["c1"].status = 404
    /\ ~HasRow(pre["c1"].image_metadata, req["c1"].image_name)
    /\ HasObject(bucket, req["c1"].image_name)

\* C4: when delete_image removed at least one row it issues the object delete
\* for images/n whatever the store holds; if that call fails it returns 500,
\* the rows stay deleted and the object stays; if it succeeds it returns 200
\* and neither row nor object remains for n.
C4_DeleteObjectAfterRowNoRollback ==
    \A c \in Clients :
        ( /\ Finished(c, "delete_image")
          /\ HasRow(pre[c].image_metadata, req[c].image_name)
          /\ Len(calls[c]) >= 1
          /\ calls[c][1] = Call("delete", TRUE) )
        => /\ Len(calls[c]) = 2
           /\ calls[c][2].call = "delete_object"
           /\ ~HasRow(image_metadata, req[c].image_name)
           /\ calls[c][2].ok =>
                 /\ resp[c].status = 200
                 /\ ExpectedKey(req[c].image_name) \notin DOMAIN bucket
           /\ ~calls[c][2].ok =>
                 /\ resp[c].status = 500
                 /\ bucket = pre[c].bucket

\* A partial deletion: the row is gone, the object delete failed, 500.
C4_Witness ==
    /\ Finished("c1", "delete_image")
    /\ resp["c1"].status = 500
    /\ calls["c1"] = <<Call("delete", TRUE), Call("delete_object", FALSE)>>
    /\ HasRow(pre["c1"].image_metadata, req["c1"].image_name)
    /\ ~HasRow(image_metadata, req["c1"].image_name)
    /\ HasObject(bucket, req["c1"].image_name)

DownloadUnchanged(c) ==
    /\ bucket = pre[c].bucket
    /\ image_metadata = pre[c].image_metadata
    /\ queue = pre[c].queue

\* C6 as stated: download_image(n) returns 404 with the not-found body iff no
\* object is at images/n, otherwise the bytes as an attachment, row or no row;
\* it changes neither object store nor table nor queue.
C6_Download404IffNoObject ==
    \A c \in Clients :
        Finished(c, "download_image") =>
        LET n == req[c].image_name
            has == ExpectedKey(n) \in DOMAIN pre[c].bucket
        IN  /\ resp[c].status = 404 <=> ~has
            /\ ~has => resp[c].body = [error |-> <<"Image ">> \o n
                                                   \o <<" not found">>]
            /\ has => /\ resp[c].status = 200
                      /\ resp[c].body.file = pre[c].bucket[ExpectedKey(n)]
                      /\ resp[c].body.download_name = n
                      /\ resp[c].body.as_attachment
            /\ DownloadUnchanged(c)

\* C6 amended: when get_object is answered by the store, download_image(n)
\* returns 404 with the not-found body iff no object is at images/n and
\* otherwise the bytes as an attachment, row or no row; when get_object raises
\* any other error it returns 500; it never changes object store, table or
\* queue.
C6_DownloadDependsOnlyOnObjectStore ==
    \A c \in Clients :
        Finished(c, "download_image") =>
        LET n == req[c].image_name
            has == ExpectedKey(n) \in DOMAIN pre[c].bucket
        IN  /\ calls[c] \in {<<Call("get_object", TRUE)>>,
                             <<Call("get_object", FALSE)>>}
            /\ calls[c][1].ok =>
                  /\ resp[c].status = 404 <=> ~has
                  /\ ~has => resp[c].body = [error |-> <<"Image ">> \o n
                                                         \o <<" not found">>]
                  /\ has => /\ resp[c].status = 200
                            /\ resp[c].body.file = pre[c].bucket[ExpectedKey(n)]
                            /\ resp[c].body.download_name = n
                            /\ resp[c].body.as_attachment
            /\ ~calls[c][1].ok => resp[c].status = 500
            /\ DownloadUnchanged(c)

\* A download that succeeds for a name whose row does not exist.
C6_Witness ==
    /\ Finished("c1", "download_image")
    /\ resp["c1"].status = 200
    /\ resp["c1"].body.file = <<8, 9>>
    /\ ~HasRow(image_metadata, req["c1"].image_name)

SelectExecuted(c) == calls[c] = <<Call("select", TRUE)>>

\* C7 as stated: lookup by name, random row and full listing each return 404
\* when no row matches, that is when their SELECT finds no row (the named row
\* is absent; the table is empty).
C7_ReadPaths404WhenNoRow ==
    \A c \in Clients :
        /\ ( /\ Finished(c, "get_image_metadata")
             /\ SelectExecuted(c)
             /\ ~HasRow(pre[c].image_metadata, req[c].image_name) )
           => resp[c].status = 404
        /\ ( /\ Finished(c, "get_random_image_metadata")
             /\ SelectExecuted(c)
             /\ pre[c].image_metadata = <<>> )
           => resp[c].status = 404
        /\ ( /\ Finished(c, "list_images")
             /\ SelectExecuted(c)
             /\ pre[c].image_metadata = <<>> )
           => resp[c].status = 404

\* C7 amended: when their SELECT executes, lookup by name returns 404 if the
\* named row is absent and the random row returns 404 if the table is empty,
\* while the full listing of an empty table returns 200 with an empty list
\* and total 0; a read path whose connection or SELECT fails returns 500.
C7_ReadPathsWhenNoRow ==
    \A c \in Clients :
        /\ ( /\ Finished(c, "get_image_metadata")
             /\ ~HasRow(pre[c].image_metadata, req[c].image_name) )
           => IF SelectExecuted(c)
              THEN /\ resp[c].status = 404
                   /\ resp[c].body = [error |-> <<"Image ">> \o req[c].image_name
                                                    \o <<" not found">>]
              ELSE resp[c].status = 500
        /\ ( /\ Finished(c, "get_random_image_metadata")
             /\ pre[c].image_metadata = <<>> )
           => IF SelectExecuted(c)
              THEN /\ resp[c].status = 404
                   /\ resp[c].body = [error |-> <<"No images found">>]
              ELSE resp[c].status = 500
        /\ ( /\ Finished(c, "list_images")
             /\ pre[c].image_metadata = <<>> )
           => IF SelectExecuted(c)
              THEN /\ resp[c].status = 200
                   /\ resp[c].body = [images |-> <<>>, total |-> 0]
              ELSE resp[c].status = 500

\* The listing of an empty table, answered 200 with no images.
C7_Witness ==
    /\ Finished("c1", "list_images")
    /\ image_metadata = <<>>
    /\ SelectExecuted("c1")
    /\ resp["c1"].status = 200
    /\ resp["c1"].body.total = 0

\* The records of Records that are upload events with all four fields.
WellFormed(record) == record.messageId \in {1, 2}

\* The publish call made for record i of the batch, and no other.
PublishCallFor(i) ==
    /\ publishCalls[i].Message.Name = batch[i].body.value.image_name
    /\ publishCalls[i].Message.SizeBytes = batch[i].body.value.file_size
    /\ publishCalls[i].Message.Uploaded = batch[i].body.value.timestamp
    /\ publishCalls[i].Subject
          = <<"Image Upload: ">> \o batch[i].body.value.image_name

\* C5: lambda_handler handles the records of a batch of n in order; with k the
\* first record that fails to parse or to publish (n+1 if none), it makes one
\* publish call for each of the records 1..min(k, n) that is well formed and
\* none after k; it returns statusCode 200 with body 'Processed n messages'
\* iff no record failed, and otherwise raises and returns nothing.
C5_WorkerStopsAtFirstFailure ==
    LET n == Len(batch)
        m == Len(publishCalls)
    IN  wpc \in {"for", "publish", "returned", "raised"} =>
        /\ m <= n
        /\ \A i \in 1..m : WellFormed(batch[i]) /\ PublishCallFor(i)
        /\ wpc = "returned" =>
              /\ m = n
              /\ \A i \in 1..n : Notification(batch[i]) \in topic
              /\ result = [raised |-> FALSE, statusCode |-> 200,
                           body |-> [json |-> TRUE,
                                     value |-> <<"Processed ", n, " messages">>]]
        /\ wpc = "raised" =>
              /\ idx \in 1..n
              /\ \A i \in 1..(idx - 1) : WellFormed(batch[i])
              /\ m = IF WellFormed(batch[idx]) THEN idx ELSE idx - 1
              /\ \A i \in 1..(idx - 1) : Notification(batch[i]) \in topic
              /\ result.raised
              /\ result.statusCode # 200
        /\ (\E i \in 1..n : ~WellFormed(batch[i])) => wpc # "returned"
        /\ wpc \in {"for", "publish"} => ~result.raised /\ result.statusCode = 0

\* A batch of three whose second record is malformed: one publish call, then
\* the raise, and the well-formed third record is never handled.
C5_Witness ==
    /\ wpc = "raised"
    /\ Len(batch) = 3
    /\ idx = 2
    /\ ~WellFormed(batch[2])
    /\ WellFormed(batch[3])
    /\ Len(publishCalls) = 1

\* C8: a subscribe request whose email is missing or empty (no body, a body
\* without the email field, an empty email) is answered 400 with
\* {"error": "Email required"} and no call to the notification provider; an
\* unsubscribe request whose subscription identifier is missing or empty is
\* answered 400 with no provider call.
C8_MissingFieldIs400 ==
    \A c \in Clients :
        /\ ( /\ Finished(c, "subscribe_email")
             /\ (~req[c].json.present \/ ~req[c].json.has
                    \/ req[c].json.value = <<>>) )
           => /\ resp[c].status = 400
              /\ resp[c].body = [error |-> <<"Email required">>]
              /\ calls[c] = <<>>
        /\ ( /\ Finished(c, "unsubscribe_email")
             /\ (~req[c].json.present \/ ~req[c].json.has
                    \/ req[c].json.value = <<>>) )
           => /\ resp[c].status = 400
              /\ calls[c] = <<>>

\* An upload event stamped with instant t is on the queue.
Enqueued(t) ==
    \E i \in 1..Len(queue) : queue[i].MessageBody.value.timestamp = [iso |-> t]

\* A notification for the upload event enqueued at instant t is on the topic.
Published(t) ==
    \E x \in topic : x.Message.Uploaded = [iso |-> t]

\* C9: every upload event upload_image enqueued is eventually published to
\* the topic at least once, whatever other upload events share its batches
\* and whichever publish calls failed before, given that failed batches are
\* received again and that no message's publish call fails forever.
C9_EveryUploadEventEventuallyPublished ==
    \A t \in 1..MaxUploadEvents : Enqueued(t) ~> Published(t)

\* A batch of two is received again after an invocation that published its
\* first message and raised on the second.
C9_Witness ==
    /\ wpc = "for"
    /\ idx = 1
    /\ Len(batch) = 2
    /\ \E x \in topic : x.Message.Uploaded = batch[1].body.value.timestamp
    /\ ~(\E x \in topic : x.Message.Uploaded = batch[2].body.value.timestamp)

RowHasObject(n) ==
    HasRow(image_metadata, n) => ExpectedKey(n) \in DOMAIN bucket

\* C10 as stated: whatever the interleaving of concurrent upload_image and
\* delete_image requests, a row for n exists only if an object is at images/n.
C10_RowOnlyWithObject == \A n \in Names : RowHasObject(n)

\* C10 amended: a row for n exists only if an object is at images/n as long
\* as no upload_image of n has been in flight at the same time as a
\* delete_image of n; requests on other names, failing steps and concurrent
\* uploads of n do not break it.
C10_RowOnlyWithObjectUnlessOverlap ==
    \A n \in Names : n \notin overlapped => RowHasObject(n)

\* Two requests in flight at once on different names, a row present.
C10_Witness ==
    /\ InFlight("c1")
    /\ InFlight("c2")
    /\ req["c1"].op = "delete_image"
    /\ req["c2"].op = "upload_image"
    /\ pc["c1"] = "delete_object"
    /\ pc["c2"] = "send_message"
    /\ overlapped = {}
    /\ HasRow(image_metadata, req["c2"].file.filename)

\* No request is being handled on any client.
Quiescent == \A c \in Clients : ~InFlight(c)

\* The file_size of row i is the byte length of the object stored under the
\* key of its name, when there is such an object.
RowSizeIsObjectLength(i) ==
    ExpectedKey(image_metadata[i].image_name) \in DOMAIN bucket
        => image_metadata[i].file_size
               = Len(bucket[ExpectedKey(image_metadata[i].image_name)])

\* C11 as stated: after any sequence of upload_image and delete_image
\* requests, repeated uploads of a filename and failing steps included, every
\* row of a name whose object exists at images/n records as file_size the
\* byte length of the object now stored at images/n.
C11_RowSizeIsObjectLength ==
    Quiescent => \A i \in 1..Len(image_metadata) : RowSizeIsObjectLength(i)

====
